---- MODULE Spec2Model ----
(***************************************************************************)
(* `jr update-manifest MANIFEST` (lib/cli/do_update_manifest.js).          *)
(*                                                                         *)
(* The command loads a repo manifest, fetches the candidate repos of the   *)
(* organisation, categorises them against the manifest (gone / new) and    *)
(* walks the user through three stages: removal of gone repos, inclusion   *)
(* of new repos and exclusion of new repos.  The two edit stages present   *)
(* a text form in the user's editor and parse what comes back.             *)
(*                                                                         *)
(* Strings are sequences of one-character strings, so that the form codec  *)
(* (createReposForm / parseReposForm) works on text the way the code does: *)
(* split on newlines, trim, prefix test, split on whitespace.              *)
(***************************************************************************)
EXTENDS Integers, Sequences, FiniteSets, TLC

\* ------------------------------------------------------------------------
\* Bounds of the model

\* Number of distinct repo names the manifest and the candidate source
\* draw from.
MaxNames == 2

\* ------------------------------------------------------------------------
\* Strings

\* UTF-16 code unit of the characters the model uses (String comparison in
\* Array.prototype.sort and in tabula's comparator is by code unit).
CharCode(c) ==
    CASE c = "\n" -> 10
      [] c = " " -> 32
      [] c = "#" -> 35
      [] c = "-" -> 45
      [] c = "/" -> 47
      [] c = "0" -> 48
      [] c = "1" -> 49
      [] c = "2" -> 50
      [] c = "=" -> 61
      [] c = "a" -> 97
      [] c = "b" -> 98
      [] c = "c" -> 99
      [] c = "d" -> 100
      [] c = "e" -> 101
      [] c = "f" -> 102
      [] c = "h" -> 104
      [] c = "l" -> 108
      [] c = "p" -> 112
      [] c = "r" -> 114
      [] c = "s" -> 115
      [] c = "t" -> 116
      [] c = "u" -> 117
      [] c = "x" -> 120
      [] c = "y" -> 121
      [] c = "z" -> 122

\* a < b for strings, as JavaScript's `<` on strings.
RECURSIVE StrLess(_, _)
StrLess(a, b) ==
    IF b = <<>> THEN FALSE
    ELSE IF a = <<>> THEN TRUE
    ELSE IF CharCode(Head(a)) < CharCode(Head(b)) THEN TRUE
    ELSE IF CharCode(Head(a)) > CharCode(Head(b)) THEN FALSE
    ELSE StrLess(Tail(a), Tail(b))

\* 'https://github.com/TritonDataCenter/', abbreviated to two characters.
JOYENT_REPO_BASE_URL == <<"h", "/">>

IsSpace(c) == c = " "

\* String.prototype.trim
RECURSIVE TrimLeft(_)
TrimLeft(s) ==
    IF s # <<>> /\ IsSpace(Head(s)) THEN TrimLeft(Tail(s)) ELSE s

RECURSIVE TrimRight(_)
TrimRight(s) ==
    IF s # <<>> /\ IsSpace(s[Len(s)])
    THEN TrimRight(SubSeq(s, 1, Len(s) - 1))
    ELSE s

Trim(s) == TrimRight(TrimLeft(s))

\* String.prototype.slice(0, n) and slice(n)
SliceTo(s, n) == SubSeq(s, 1, IF n < Len(s) THEN n ELSE Len(s))
SliceFrom(s, n) == SubSeq(s, n + 1, Len(s))

\* text.split(/\n/g): the pieces between newlines; a text of n newlines
\* gives n + 1 pieces.
RECURSIVE SplitLinesAcc(_, _, _)
SplitLinesAcc(s, cur, acc) ==
    IF s = <<>> THEN Append(acc, cur)
    ELSE IF Head(s) = "\n" THEN SplitLinesAcc(Tail(s), <<>>, Append(acc, cur))
    ELSE SplitLinesAcc(Tail(s), Append(cur, Head(s)), acc)

SplitLines(text) == SplitLinesAcc(text, <<>>, <<>>)

\* str.split(/\s+/g): the pieces between runs of whitespace; a leading run
\* gives a leading empty piece.
RECURSIVE SplitWsAcc(_, _, _)
SplitWsAcc(s, cur, acc) ==
    IF s = <<>> THEN Append(acc, cur)
    ELSE IF IsSpace(Head(s))
         THEN SplitWsAcc(TrimLeft(s), <<>>, Append(acc, cur))
         ELSE SplitWsAcc(Tail(s), Append(cur, Head(s)), acc)

SplitWs(s) == SplitWsAcc(s, <<>>, <<>>)

\* lines.join('\n')
RECURSIVE JoinLines(_)
JoinLines(lines) ==
    IF lines = <<>> THEN <<>>
    ELSE IF Len(lines) = 1 THEN lines[1]
    ELSE lines[1] \o <<"\n">> \o JoinLines(Tail(lines))

\* token.indexOf('='): 0-based index, -1 when absent
RECURSIVE IndexOfEq(_, _)
IndexOfEq(s, i) ==
    IF i > Len(s) THEN -1
    ELSE IF s[i] = "=" THEN i - 1
    ELSE IndexOfEq(s, i + 1)

IsDigit(c) == c \in {"0", "1", "2"}

DigitVal(c) == CharCode(c) - 48

\* !isNaN(Number(val)) for a token of the model's characters: the empty
\* string (Number('') is 0) and decimal digit strings with an optional sign.
IsNumeric(s) ==
    \/ s = <<>>
    \/ /\ \A i \in 1..Len(s) : IsDigit(s[i])
    \/ /\ Len(s) > 1
       /\ s[1] = "-"
       /\ \A i \in 2..Len(s) : IsDigit(s[i])

RECURSIVE DigitsVal(_, _)
DigitsVal(s, acc) ==
    IF s = <<>> THEN acc ELSE DigitsVal(Tail(s), 10 * acc + DigitVal(Head(s)))

\* Number(val) where IsNumeric(val)
NumberOf(s) ==
    IF s = <<>> THEN 0
    ELSE IF s[1] = "-" THEN 0 - DigitsVal(Tail(s), 0)
    ELSE DigitsVal(s, 0)

\* ------------------------------------------------------------------------
\* Label values: JavaScript booleans, numbers and strings, tagged by type.

BoolVal(v) == [type |-> "boolean", b |-> v, n |-> 0, s |-> <<>>]
NumVal(v) == [type |-> "number", b |-> FALSE, n |-> v, s |-> <<>>]
StrVal(v) == [type |-> "string", b |-> FALSE, n |-> 0, s |-> v]

NoLabels == [k \in {} |-> BoolVal(TRUE)]

\* labels[key] = val
SetLabel(labels, key, val) ==
    [k \in DOMAIN labels \cup {key} |-> IF k = key THEN val ELSE labels[k]]

\* ------------------------------------------------------------------------
\* Form codec

\* createReposForm that leaves the base URL out of the repo lines.
createReposForm_NoBaseUrl(frontMatter, repos) ==
    LET form == frontMatter \o
                [i \in 1..Len(repos) |-> <<"#", " ">> \o repos[i].name]
    IN  JoinLines(form) \o <<"\n">>

\* createReposForm that lists the repos without the comment marker.
createReposForm_Uncommented(frontMatter, repos) ==
    LET form == frontMatter \o
                [i \in 1..Len(repos) |-> JOYENT_REPO_BASE_URL \o repos[i].name]
    IN  JoinLines(form) \o <<"\n">>

\* createReposForm(frontMatter, repos)
createReposForm(frontMatter, repos) ==
    LET form == frontMatter \o
                [i \in 1..Len(repos) |->
                    <<"#", " ">> \o JOYENT_REPO_BASE_URL \o repos[i].name]
    IN  JoinLines(form) \o <<"\n">>

\* ParseToken that does not know the value `false`.
ParseToken_NoFalse(labels, token) ==
    LET idx == IndexOfEq(token, 1) IN
    IF idx = -1 THEN SetLabel(labels, token, BoolVal(TRUE))
    ELSE LET key == SliceTo(token, idx)
             val == SliceFrom(token, idx + 1)
         IN  SetLabel(labels, key,
                 IF val = <<"t", "r", "u", "e">> THEN BoolVal(TRUE)
                 ELSE IF IsNumeric(val) THEN NumVal(NumberOf(val))
                 ELSE StrVal(val))

\* One label token of parseReposForm: labels[token] = true, or
\* labels[key] = val with val coerced.
ParseToken(labels, token) ==
    LET idx == IndexOfEq(token, 1) IN
    IF idx = -1 THEN SetLabel(labels, token, BoolVal(TRUE))
    ELSE LET key == SliceTo(token, idx)
             val == SliceFrom(token, idx + 1)
         IN  SetLabel(labels, key,
                 IF val = <<"t", "r", "u", "e">> THEN BoolVal(TRUE)
                 ELSE IF val = <<"f", "a", "l", "s", "e">> THEN BoolVal(FALSE)
                 ELSE IF IsNumeric(val) THEN NumVal(NumberOf(val))
                 ELSE StrVal(val))

RECURSIVE ParseTokens(_, _)
ParseTokens(labels, tokens) ==
    IF tokens = <<>> THEN labels
    ELSE ParseTokens(ParseToken(labels, Head(tokens)), Tail(tokens))

\* The repo entry of a line that starts with the base URL.
ParseRepoLine(line, parseLabels) ==
    LET tokens == SplitWs(SliceFrom(line, Len(JOYENT_REPO_BASE_URL)))
        rest == Tail(tokens)
    IN  IF parseLabels /\ Len(rest) > 0
        THEN [name |-> Head(tokens), hasLabels |-> TRUE,
              labels |-> ParseTokens(NoLabels, rest)]
        ELSE [name |-> Head(tokens), hasLabels |-> FALSE, labels |-> NoLabels]

\* The loop of parseReposForm from line i on.  The result is either
\* [ok |-> TRUE, repos] or the thrown error [ok |-> FALSE, line, text].
RECURSIVE ParseLines(_, _, _, _)
ParseLines(lines, i, repos, parseLabels) ==
    IF i > Len(lines)
    THEN [ok |-> TRUE, repos |-> repos, line |-> 0, text |-> <<>>]
    ELSE LET line == Trim(lines[i]) IN
         IF line = <<>> THEN ParseLines(lines, i + 1, repos, parseLabels)
         ELSE IF line[1] = "#" THEN ParseLines(lines, i + 1, repos, parseLabels)
         ELSE IF SliceTo(line, Len(JOYENT_REPO_BASE_URL)) = JOYENT_REPO_BASE_URL
         THEN ParseLines(lines, i + 1,
                         Append(repos, ParseRepoLine(line, parseLabels)),
                         parseLabels)
         ELSE [ok |-> FALSE, repos |-> <<>>, line |-> i, text |-> line]

\* parseReposForm whose error counts the lines from 0.
parseReposForm_ZeroBased(text, parseLabels) ==
    LET r == ParseLines(SplitLines(text), 1, <<>>, parseLabels) IN
    IF r.ok THEN r ELSE [r EXCEPT !.line = @ - 1]

\* parseReposForm(text, parseLabels)
parseReposForm(text, parseLabels) ==
    ParseLines(SplitLines(text), 1, <<>>, parseLabels)

\* ------------------------------------------------------------------------
\* Sorting

\* The comparator tabula builds for the field 'name'.
NameLess(a, b) == StrLess(a.name, b.name)

\* Insertion of x into a sorted list, after the entries that are not
\* greater (the sort is stable).
RECURSIVE InsertByName(_, _)
InsertByName(sorted, x) ==
    IF sorted = <<>> THEN <<x>>
    ELSE IF NameLess(x, Head(sorted)) THEN <<x>> \o sorted
    ELSE <<Head(sorted)>> \o InsertByName(Tail(sorted), x)

\* sortArrayOfObjects that leaves the list as it is.
sortArrayOfObjects_NoSort(items) == items

\* tabula.sortArrayOfObjects(items, ['name'])
RECURSIVE sortArrayOfObjects(_)
sortArrayOfObjects(items) ==
    IF items = <<>> THEN <<>>
    ELSE InsertByName(sortArrayOfObjects(SubSeq(items, 1, Len(items) - 1)),
                      items[Len(items)])

RECURSIVE InsertString(_, _)
InsertString(sorted, x) ==
    IF sorted = <<>> THEN <<x>>
    ELSE IF StrLess(x, Head(sorted)) THEN <<x>> \o sorted
    ELSE <<Head(sorted)>> \o InsertString(Tail(sorted), x)

\* SortStrings that leaves the list as it is.
SortStrings_NoSort(items) == items

\* Array.prototype.sort() on an array of strings
RECURSIVE SortStrings(_)
SortStrings(items) ==
    IF items = <<>> THEN <<>>
    ELSE InsertString(SortStrings(SubSeq(items, 1, Len(items) - 1)),
                      items[Len(items)])

\* The set of the `name`s of a list of repo objects.
NamesOf(list) == {list[i].name : i \in 1..Len(list)}

\* The set of the elements of a list.
Range(list) == {list[i] : i \in 1..Len(list)}

\* ------------------------------------------------------------------------
\* The inputs of a run

NameChars == <<"a", "b", "c", "d", "e">>

\* The repo names of the model, in name order.
NameSeq == [i \in 1..MaxNames |-> <<NameChars[i]>>]

Names == Range(NameSeq)

\* A tracked entry of the manifest file; the first name carries labels.
TrackedEntry(n) ==
    IF n = NameSeq[1]
    THEN [name |-> n, hasLabels |-> TRUE,
          labels |-> SetLabel(NoLabels, <<"s">>, StrVal(<<"a">>))]
    ELSE [name |-> n, hasLabels |-> FALSE, labels |-> NoLabels]

Reverse(list) == [i \in 1..Len(list) |-> list[Len(list) + 1 - i]]

\* The names of NameSeq that are in the set S, in name order.
NamesIn(S) == SelectSeq(NameSeq, LAMBDA n : n \in S)

\* A manifest document.
Manifest(repositories, excludedRepositories, includeArchived) ==
    [description |-> "d",
     repositories |-> repositories,
     excludedRepositories |-> excludedRepositories,
     repoCandidateSearch |->
        [type |-> "public", includeArchived |-> includeArchived,
         description |-> "d"],
     blessedLabels |->
        << [name |-> <<"x">>, type |-> "number", description |-> <<"d">>],
           [name |-> <<"y">>, type |-> "boolean", description |-> <<"d">>] >>,
     defaults |-> [labels |-> SetLabel(NoLabels, <<"p">>, BoolVal(TRUE))]]

\* The manifest files a run may start from: any names tracked, any of the
\* other names excluded, the tracked entries in name order or in reverse
\* order.
ManifestFiles ==
    {Manifest(IF rev THEN Reverse([i \in 1..Len(NamesIn(R)) |->
                                       TrackedEntry(NamesIn(R)[i])])
              ELSE [i \in 1..Len(NamesIn(R)) |-> TrackedEntry(NamesIn(R)[i])],
              NamesIn(E), inc) :
        <<R, E>> \in {re \in (SUBSET Names) \X (SUBSET Names) :
                        re[1] \cap re[2] = {}},
        rev \in BOOLEAN, inc \in BOOLEAN}

\* The listings the candidate source may answer with: any names, each
\* archived or not.
SourceListings ==
    {[i \in 1..Len(NamesIn(P)) |->
        [name |-> NamesIn(P)[i], archived |-> NamesIn(P)[i] \in A]] :
        P \in SUBSET Names, A \in SUBSET Names}

\* ctx.manifest before readManifest has set it.
NoManifest == Manifest(<<>>, <<>>, FALSE)

\* ------------------------------------------------------------------------
\* Front matter of the two forms

\* The keys of a label map, as a list in string order.
RECURSIVE KeysOfSet(_)
KeysOfSet(S) ==
    IF S = {} THEN <<>>
    ELSE LET k == CHOOSE x \in S : \A y \in S : x = y \/ StrLess(x, y)
         IN  <<k>> \o KeysOfSet(S \ {k})

Keys(labels) == KeysOfSet(DOMAIN labels)

\* String(n) for n >= 0
RECURSIVE NumberStr(_)
NumberStr(n) ==
    LET d == <<"0", "1", "2", "3", "4", "5", "6", "7", "8", "9">>[(n % 10) + 1]
    IN  IF n < 10 THEN <<d>> ELSE NumberStr(n \div 10) \o <<d>>

\* '' + v for a label value
ValueStr(v) ==
    IF v.type = "boolean"
    THEN (IF v.b THEN <<"t", "r", "u", "e">> ELSE <<"f", "a", "l", "s", "e">>)
    ELSE IF v.type = "number" THEN NumberStr(v.n)
    ELSE v.s

\* The name of a label type, abbreviated to its first letter.
TypeStr(type) ==
    CASE type = "boolean" -> <<"b">>
      [] type = "number" -> <<"n">>
      [] type = "string" -> <<"s">>

\* A line of fixed comment text of the source, abbreviated to its marker.
CommentLine == <<"#">>

\* The front matter addNewIncludedRepos builds.
IncludeFrontMatter(m) ==
    LET dl == m.defaults.labels
        dk == Keys(dl)
        bl == m.blessedLabels
    IN  [i \in 1..7 |-> CommentLine]
        \o (IF dk # <<>>
            THEN <<CommentLine, CommentLine>> \o
                 [i \in 1..Len(dk) |->
                    IF dl[dk[i]] = BoolVal(TRUE)
                    THEN <<"#", " ", "-", " ">> \o dk[i]
                    ELSE <<"#", " ", "-", " ">> \o dk[i] \o <<"=">>
                         \o ValueStr(dl[dk[i]])]
            ELSE <<>>)
        \o (IF Len(bl) > 0
            THEN <<CommentLine, CommentLine>> \o
                 [i \in 1..Len(bl) |->
                    IF bl[i].type = "boolean"
                    THEN <<"#", " ", "-", " ">> \o bl[i].name
                         \o <<" ", "-", " ">> \o bl[i].description
                    ELSE <<"#", " ", "-", " ">> \o bl[i].name \o <<"=", "<">>
                         \o TypeStr(bl[i].type) \o <<">", " ", "-", " ">>
                         \o bl[i].description]
            ELSE <<>>)
        \o << <<>> >>

\* The front matter addNewExcludedRepos passes.
ExcludeFrontMatter == <<CommentLine, CommentLine, <<>> >>

\* ------------------------------------------------------------------------
\* What the user may hand back from the editor

\* The line of a repo as the form has it, commented out.
Commented(name) == <<"#", " ">> \o JOYENT_REPO_BASE_URL \o name

\* The line of a repo with the comment marker removed.
Uncommented(name) == JOYENT_REPO_BASE_URL \o name

\* The line of a repo uncommented and followed by the labels `x=1 y`.
Labelled(name) == Uncommented(name) \o <<" ", "x", "=", "1", " ", "y">>

\* A line that is neither blank, nor a comment, nor a repo URL.
BadLine == <<"z", "z">>

\* The repo lines of a text that selects the repos at the positions S,
\* all of them with labels or all of them without.
SelectionLines(repos, S, labelled) ==
    [i \in 1..Len(repos) |->
        IF i \notin S THEN Commented(repos[i].name)
        ELSE IF labelled THEN Labelled(repos[i].name)
        ELSE Uncommented(repos[i].name)]

\* The repo lines of a text whose line bad is not a repo URL, the other
\* repos all selected or all left commented.
ErrorLines(repos, bad, others) ==
    [i \in 1..Len(repos) |->
        IF i = bad THEN BadLine
        ELSE IF others THEN Uncommented(repos[i].name)
        ELSE Commented(repos[i].name)]

\* A line the user may add after the repo lines: nothing, the URL of the
\* first name of the model (tracked, excluded, or listed in the form too),
\* or the URL of a name no listing ever has.
ExtraLines ==
    { <<>>, JOYENT_REPO_BASE_URL \o NameSeq[1], JOYENT_REPO_BASE_URL \o <<"z">> }

\* The texts the editor may return for the form of frontMatter and repos.
UserTexts(frontMatter, repos) ==
    {JoinLines(frontMatter \o ls \o <<x>>) \o <<"\n">> :
        ls \in {SelectionLines(repos, S, l) :
                    S \in SUBSET (1..Len(repos)), l \in BOOLEAN}
               \cup {ErrorLines(repos, i, o) :
                        i \in 1..Len(repos), o \in BOOLEAN},
        x \in ExtraLines}

\* ------------------------------------------------------------------------
\* The state of a run

VARIABLES
    pc,                  \* the pipeline function that is running, or "done"
    wait,                \* the external operation the function awaits
    err,                 \* the error the pipeline's callback got, or "none"
    file,                \* the content of the manifest file
    manifest,            \* ctx.manifest
    fetched,             \* the listing the candidate source answered with
    candidateRepos,      \* ctx.candidateRepos
    goneRepos,           \* ctx.goneRepos
    goneExcRepos,        \* ctx.goneExcRepos
    newRepos,            \* ctx.newRepos
    addNewRepos,         \* ctx.addNewRepos
    remainingRepos,      \* ctx.remainingRepos
    addNewExcludedRepos, \* ctx.addNewExcludedRepos
    text,                \* editReposInEditor: text
    editLine,            \* editReposInEditor: editLine (0 is null)
    parseErr,            \* editReposInEditor: the caught parseErr
    repos,               \* onEdited: the repos argument
    answer,              \* history: the answer to the removal prompt
    included,            \* history: the names accepted for inclusion
    excluded,            \* history: the names accepted for exclusion
    sourceFailed,        \* history: the candidate source request failed
    interacted,          \* history: a prompt or the editor has been started
    writes,              \* history: the number of completed file writes
    log                  \* history: the functions entered, the editor
                         \* invocations, their callbacks and the writes

vars == <<pc, wait, err, file, manifest, fetched, candidateRepos, goneRepos,
          goneExcRepos, newRepos, addNewRepos, remainingRepos,
          addNewExcludedRepos, text, editLine, parseErr, repos, answer,
          included, excluded, sourceFailed, interacted, writes, log>>

ctxVars == <<candidateRepos, goneRepos, goneExcRepos, newRepos, addNewRepos,
             remainingRepos, addNewExcludedRepos>>

editVars == <<text, editLine, parseErr, repos>>

\* The funcs of the vasync.pipeline, in order.
Funcs == <<"readManifest", "fetchCandidateRepos", "cacheIt", "loadCache",
           "categorizeRepos", "removeGoneRepos", "confirmAddNewRepos",
           "addNewIncludedRepos", "confirmAddNewExcludedRepos",
           "addNewExcludedRepos">>

FuncIndex(f) == CHOOSE i \in 1..Len(Funcs) : Funcs[i] = f

\* next(): the pipeline goes on to the following function, or ends.
PipelineNext ==
    /\ pc' = IF FuncIndex(pc) < Len(Funcs) THEN Funcs[FuncIndex(pc) + 1]
             ELSE "done"
    /\ wait' = "none"
    /\ err' = err

\* next(e): the pipeline ends with the error.
PipelineFail(e) ==
    /\ pc' = "done"
    /\ wait' = "none"
    /\ err' = e

NoParseErr == [ok |-> TRUE, repos |-> <<>>, line |-> 0, text |-> <<>>]

Init ==
    /\ pc = "readManifest"
    /\ wait = "read"
    /\ err = "none"
    /\ file \in ManifestFiles
    /\ manifest = NoManifest
    /\ fetched = <<>>
    /\ candidateRepos = <<>>
    /\ goneRepos = <<>>
    /\ goneExcRepos = <<>>
    /\ newRepos = <<>>
    /\ addNewRepos = FALSE
    /\ remainingRepos = <<>>
    /\ addNewExcludedRepos = FALSE
    /\ text = <<>>
    /\ editLine = 0
    /\ parseErr = NoParseErr
    /\ repos = <<>>
    /\ answer = "none"
    /\ included = {}
    /\ excluded = {}
    /\ sourceFailed = FALSE
    /\ interacted = FALSE
    /\ writes = 0
    /\ log = <<"readManifest">>

\* ------------------------------------------------------------------------
\* readManifest .. categorizeRepos

\* readManifest: the file is read and parsed.
ReadManifestOk ==
    /\ pc = "readManifest" /\ wait = "read"
    /\ manifest' = file
    /\ PipelineNext
    /\ UNCHANGED <<file, fetched, ctxVars, editVars, answer, included, excluded,
                   sourceFailed, interacted, writes>>
    /\ UNCHANGED log

\* readManifest: the file cannot be read, or is not JSON.
ReadManifestFail ==
    /\ pc = "readManifest" /\ wait = "read"
    /\ PipelineFail("ReadError")
    /\ UNCHANGED <<file, manifest, fetched, ctxVars, editVars, answer,
                   included, excluded,
                   sourceFailed, interacted, writes>>
    /\ UNCHANGED log

\* fetchCandidateRepos: the request is sent (the debug cache is off).
FetchCandidateRepos ==
    /\ pc = "fetchCandidateRepos" /\ wait = "none"
    /\ wait' = "source"
    /\ UNCHANGED <<pc, err, file, manifest, fetched, ctxVars, editVars,
                   answer, included, excluded,
                   sourceFailed, interacted, writes>>
    /\ UNCHANGED log

\* FetchThen without the filter on archived repos.
FetchThen_NoFilter ==
    /\ pc = "fetchCandidateRepos" /\ wait = "source"
    /\ \E listing \in SourceListings :
        /\ fetched' = listing
        /\ candidateRepos' = listing
    /\ PipelineNext
    /\ UNCHANGED <<file, manifest, goneRepos, goneExcRepos, newRepos,
                   addNewRepos, remainingRepos, addNewExcludedRepos,
                   editVars, answer, included, excluded,
                   sourceFailed, interacted, writes>>
    /\ UNCHANGED log

\* fetchCandidateRepos, .then: the listing arrives; archived repos are
\* dropped unless repoCandidateSearch.includeArchived.
FetchThen ==
    /\ pc = "fetchCandidateRepos" /\ wait = "source"
    /\ \E listing \in SourceListings :
        /\ fetched' = listing
        /\ candidateRepos' =
            IF ~manifest.repoCandidateSearch.includeArchived
            THEN SelectSeq(listing, LAMBDA repo : ~repo.archived)
            ELSE listing
    /\ PipelineNext
    /\ UNCHANGED <<file, manifest, goneRepos, goneExcRepos, newRepos,
                   addNewRepos, remainingRepos, addNewExcludedRepos,
                   editVars, answer, included, excluded,
                   sourceFailed, interacted, writes>>
    /\ UNCHANGED log

\* FetchCatch swallowing the error: the pipeline goes on without
\* candidates.
FetchCatch_Swallow ==
    /\ pc = "fetchCandidateRepos" /\ wait = "source"
    /\ sourceFailed' = TRUE
    /\ PipelineNext
    /\ UNCHANGED <<file, manifest, fetched, ctxVars, editVars, answer,
                   included, excluded, interacted, writes>>
    /\ UNCHANGED log

\* fetchCandidateRepos, .catch: the request failed.
FetchCatch ==
    /\ pc = "fetchCandidateRepos" /\ wait = "source"
    /\ PipelineFail("GitHubApiError")
    /\ sourceFailed' = TRUE
    /\ UNCHANGED <<file, manifest, fetched, ctxVars, editVars, answer,
                   included, excluded, interacted, writes>>
    /\ UNCHANGED log

\* cacheIt: nothing to do, DEBUG_GITHUB_REPOS_CACHE_PATH is null.
CacheIt ==
    /\ pc = "cacheIt" /\ wait = "none"
    /\ PipelineNext
    /\ UNCHANGED <<file, manifest, fetched, ctxVars, editVars, answer,
                   included, excluded,
                   sourceFailed, interacted, writes>>
    /\ UNCHANGED log

\* loadCache: nothing to do, DEBUG_GITHUB_REPOS_CACHE_PATH is null.
LoadCache ==
    /\ pc = "loadCache" /\ wait = "none"
    /\ PipelineNext
    /\ UNCHANGED <<file, manifest, fetched, ctxVars, editVars, answer,
                   included, excluded,
                   sourceFailed, interacted, writes>>
    /\ UNCHANGED log

\* The lookup objects categorizeRepos builds: name -> the (last) repo of
\* that name.
FromName(list) ==
    [n \in NamesOf(list) |->
        list[CHOOSE i \in 1..Len(list) :
                /\ list[i].name = n
                /\ \A j \in (i + 1)..Len(list) : list[j].name # n]]

\* excRepoFromName: name -> true
ExcFromName(names) == [n \in Range(names) |-> TRUE]

\* GoneRepos with a guard that reports nothing as gone when there is no
\* candidate at all.
GoneRepos_GuardEmpty(m, candidates) ==
    IF candidates = <<>> THEN <<>>
    ELSE SelectSeq(m.repositories,
                LAMBDA repo : repo.name \notin DOMAIN FromName(candidates))

\* categorizeRepos: ctx.goneRepos
GoneRepos(m, candidates) ==
    LET candidateRepoFromName == FromName(candidates)
    IN  SelectSeq(m.repositories,
               LAMBDA repo : repo.name \notin DOMAIN candidateRepoFromName)

\* GoneExcRepos looking the names up among the tracked repos instead of
\* the candidates.
GoneExcRepos_WrongLookup(m, candidates) ==
    LET repoFromName == FromName(m.repositories)
        gone == SelectSeq(m.excludedRepositories,
                       LAMBDA name : name \notin DOMAIN repoFromName)
    IN  [i \in 1..Len(gone) |-> [name |-> gone[i]]]

\* categorizeRepos: ctx.goneExcRepos
GoneExcRepos(m, candidates) ==
    LET candidateRepoFromName == FromName(candidates)
        gone == SelectSeq(m.excludedRepositories,
                       LAMBDA name : name \notin DOMAIN candidateRepoFromName)
    IN  [i \in 1..Len(gone) |-> [name |-> gone[i]]]

\* NewRepos without the test against the excluded names.
NewRepos_ForgetExcluded(m, candidates) ==
    LET repoFromName == FromName(m.repositories)
    IN  SelectSeq(candidates, LAMBDA repo : repo.name \notin DOMAIN repoFromName)

\* categorizeRepos: ctx.newRepos
NewRepos(m, candidates) ==
    LET repoFromName == FromName(m.repositories)
        excRepoFromName == ExcFromName(m.excludedRepositories)
    IN  SelectSeq(candidates,
               LAMBDA repo : /\ repo.name \notin DOMAIN repoFromName
                             /\ repo.name \notin DOMAIN excRepoFromName)

CategorizeRepos ==
    /\ pc = "categorizeRepos" /\ wait = "none"
    /\ goneRepos' = GoneRepos(manifest, candidateRepos)
    /\ goneExcRepos' = GoneExcRepos(manifest, candidateRepos)
    /\ newRepos' = NewRepos(manifest, candidateRepos)
    /\ PipelineNext
    /\ UNCHANGED <<file, manifest, fetched, candidateRepos, addNewRepos,
                   remainingRepos, addNewExcludedRepos, editVars, answer,
                   included, excluded,
                   sourceFailed, interacted, writes>>
    /\ log' = Append(log, "categorizeRepos")

\* ------------------------------------------------------------------------
\* saveManifest

\* The closure variables of a stage are gone once the stage has called
\* next.
EditReset ==
    /\ text' = <<>>
    /\ editLine' = 0
    /\ parseErr' = NoParseErr
    /\ repos' = <<>>

\* saveManifest, onSave without error: the file holds the manifest.
SaveOk ==
    /\ wait = "write"
    /\ file' = manifest
    /\ writes' = writes + 1
    /\ PipelineNext
    /\ EditReset
    /\ UNCHANGED <<manifest, fetched, ctxVars, answer, included, excluded,
                   sourceFailed, interacted>>
    /\ log' = Append(log, "saveManifest")

\* SaveFail that hands the pipeline on to its next function.
SaveFail_GoesOn ==
    /\ wait = "write"
    /\ pc' = IF FuncIndex(pc) < Len(Funcs) THEN Funcs[FuncIndex(pc) + 1]
             ELSE "done"
    /\ wait' = "none"
    /\ err' = "WriteError"
    /\ EditReset
    /\ UNCHANGED <<file, manifest, fetched, ctxVars, answer, included, excluded,
                   sourceFailed, interacted, writes>>
    /\ log' = Append(log, "writeError")

\* saveManifest, onSave with an error: the file is as it was.
SaveFail ==
    /\ wait = "write"
    /\ PipelineFail("WriteError")
    /\ EditReset
    /\ UNCHANGED <<file, manifest, fetched, ctxVars, answer, included, excluded,
                   sourceFailed, interacted, writes>>
    /\ log' = Append(log, "writeError")

\* ------------------------------------------------------------------------
\* removeGoneRepos

\* The answers of common.promptYesNo: yes, no, or the prompt was aborted.
YesNoAnswers == {"y", "n", "false"}

\* WithoutGone that forgets the excluded names.
WithoutGone_ForgetExcluded(m, gone, goneExc) ==
    [m EXCEPT
        !.repositories = SelectSeq(@, LAMBDA r : r.name \notin NamesOf(gone))]

\* manifest.repositories without the entries named in goneRepos, and
\* manifest.excludedRepositories without the names in goneExcRepos.
WithoutGone(m, gone, goneExc) ==
    LET goneRepoNames == NamesOf(gone)
        goneExcRepoNames == NamesOf(goneExc)
    IN  [m EXCEPT
            !.repositories =
                SelectSeq(@, LAMBDA r : r.name \notin goneRepoNames),
            !.excludedRepositories =
                SelectSeq(@, LAMBDA n : n \notin goneExcRepoNames)]

\* removeGoneRepos: nothing is gone, or the prompt is shown.
RemoveGoneRepos ==
    /\ pc = "removeGoneRepos" /\ wait = "none"
    /\ IF Len(goneRepos \o goneExcRepos) = 0
       THEN /\ PipelineNext
            /\ UNCHANGED interacted
       ELSE /\ wait' = "promptYesNo"
            /\ interacted' = TRUE
            /\ UNCHANGED <<pc, err>>
    /\ UNCHANGED <<file, manifest, fetched, ctxVars, editVars, answer,
                   included, excluded,
                   sourceFailed, writes>>
    /\ log' = Append(log, "removeGoneRepos")

\* RemoveGoneReposAnswer that takes only "n" as a decline.
RemoveGoneReposAnswer_OnlyNo ==
    /\ pc = "removeGoneRepos" /\ wait = "promptYesNo"
    /\ \E a \in YesNoAnswers :
        /\ answer' = a
        /\ IF a = "n"
           THEN /\ PipelineNext
                /\ UNCHANGED manifest
           ELSE /\ manifest' = WithoutGone(manifest, goneRepos, goneExcRepos)
                /\ wait' = "write"
                /\ UNCHANGED <<pc, err>>
    /\ UNCHANGED <<file, fetched, ctxVars, editVars, included, excluded,
                   sourceFailed, interacted, writes>>
    /\ UNCHANGED log

\* RemoveGoneReposAnswer that calls next() without waiting for the save.
RemoveGoneReposAnswer_SaveAndNext ==
    /\ pc = "removeGoneRepos" /\ wait = "promptYesNo"
    /\ \E a \in YesNoAnswers :
        /\ answer' = a
        /\ IF a # "y"
           THEN /\ PipelineNext
                /\ UNCHANGED manifest
           ELSE /\ manifest' = WithoutGone(manifest, goneRepos, goneExcRepos)
                /\ wait' = "write"
                /\ pc' = "confirmAddNewRepos"
                /\ UNCHANGED err
    /\ UNCHANGED <<file, fetched, ctxVars, editVars, included, excluded,
                   sourceFailed, interacted, writes>>
    /\ UNCHANGED log

\* removeGoneRepos, onA: the answer to the prompt.
RemoveGoneReposAnswer ==
    /\ pc = "removeGoneRepos" /\ wait = "promptYesNo"
    /\ \E a \in YesNoAnswers :
        /\ answer' = a
        /\ IF a # "y"
           THEN /\ PipelineNext
                /\ UNCHANGED manifest
           ELSE /\ manifest' = WithoutGone(manifest, goneRepos, goneExcRepos)
                /\ wait' = "write"
                /\ UNCHANGED <<pc, err>>
    /\ UNCHANGED <<file, fetched, ctxVars, editVars, included, excluded,
                   sourceFailed, interacted, writes>>
    /\ UNCHANGED log

\* ------------------------------------------------------------------------
\* confirmAddNewRepos

\* ConfirmAddNewRepos that asks even when no repo is new.
ConfirmAddNewRepos_AlwaysAsk ==
    /\ pc = "confirmAddNewRepos" /\ wait = "none"
    /\ wait' = "promptEnter"
    /\ interacted' = TRUE
    /\ UNCHANGED <<pc, err, addNewRepos>>
    /\ UNCHANGED <<file, manifest, fetched, candidateRepos, goneRepos,
                   goneExcRepos, newRepos, remainingRepos,
                   addNewExcludedRepos, editVars, answer, included, excluded,
                   sourceFailed, writes>>
    /\ UNCHANGED log

\* confirmAddNewRepos: nothing is new, or the prompt is shown.
ConfirmAddNewRepos ==
    /\ pc = "confirmAddNewRepos" /\ wait = "none"
    /\ IF Len(newRepos) = 0
       THEN /\ addNewRepos' = FALSE
            /\ PipelineNext
            /\ UNCHANGED interacted
       ELSE /\ wait' = "promptEnter"
            /\ interacted' = TRUE
            /\ UNCHANGED <<pc, err, addNewRepos>>
    /\ UNCHANGED <<file, manifest, fetched, candidateRepos, goneRepos,
                   goneExcRepos, newRepos, remainingRepos,
                   addNewExcludedRepos, editVars, answer, included, excluded,
                   sourceFailed, writes>>
    /\ UNCHANGED log

\* confirmAddNewRepos, onA: <Enter>, or the prompt was aborted.
ConfirmAddNewReposAnswer ==
    /\ pc = "confirmAddNewRepos" /\ wait = "promptEnter"
    /\ \E promptErr \in BOOLEAN :
        IF promptErr
        THEN /\ addNewRepos' = FALSE
             /\ UNCHANGED remainingRepos
        ELSE /\ addNewRepos' = TRUE
             /\ remainingRepos' = newRepos
    /\ PipelineNext
    /\ UNCHANGED <<file, manifest, fetched, candidateRepos, goneRepos,
                   goneExcRepos, newRepos, addNewExcludedRepos, editVars,
                   answer, included, excluded,
                   sourceFailed, interacted, writes>>
    /\ UNCHANGED log

\* ------------------------------------------------------------------------
\* editReposInEditor

\* opts.frontMatter of the stage that runs the editor.
FrontMatterOf(stage, m) ==
    IF stage = "addNewIncludedRepos" THEN IncludeFrontMatter(m)
    ELSE ExcludeFrontMatter

\* ParseLabelsOf with label parsing on in both stages.
ParseLabelsOf_Always(stage) == stage \in {"addNewIncludedRepos", "addNewExcludedRepos"}

\* opts.parseLabels of the stage that runs the editor.
ParseLabelsOf(stage) == stage = "addNewIncludedRepos"

EditStages == {"addNewIncludedRepos", "addNewExcludedRepos"}

\* editReposInEditor up to the first editAttempt: the form is made and the
\* editor is started on the first line after the front matter.
editReposInEditor(frontMatter, optsRepos) ==
    /\ text' = createReposForm(frontMatter, optsRepos)
    /\ editLine' = Len(frontMatter) + 1
    /\ wait' = "editor"
    /\ interacted' = TRUE
    /\ UNCHANGED <<pc, err, parseErr, repos>>

\* IncludedOnEdited that leaves the accepted repos in ctx.remainingRepos.
IncludedOnEdited_KeepRemaining(edited) ==
    IF Len(edited) = 0
    THEN /\ PipelineNext
         /\ EditReset
         /\ UNCHANGED <<manifest, remainingRepos, included, excluded>>
    ELSE /\ manifest' =
              [manifest EXCEPT
                  !.repositories = sortArrayOfObjects(@ \o edited)]
         /\ included' = NamesOf(edited)
         /\ repos' = edited
         /\ parseErr' = NoParseErr
         /\ wait' = "write"
         /\ UNCHANGED <<pc, err, remainingRepos, excluded>>

\* IncludedOnEdited that goes on to the next function without saving.
IncludedOnEdited_NoSave(edited) ==
    IF Len(edited) = 0
    THEN /\ PipelineNext
         /\ EditReset
         /\ UNCHANGED <<manifest, remainingRepos, included, excluded>>
    ELSE /\ manifest' =
              [manifest EXCEPT
                  !.repositories = sortArrayOfObjects(@ \o edited)]
         /\ remainingRepos' =
              SelectSeq(remainingRepos, LAMBDA r : r.name \notin NamesOf(edited))
         /\ included' = NamesOf(edited)
         /\ UNCHANGED excluded
         /\ repos' = <<>>
         /\ parseErr' = NoParseErr
         /\ PipelineNext

\* onEdited of addNewIncludedRepos, for a list of parsed repos.
IncludedOnEdited(edited) ==
    IF Len(edited) = 0
    THEN /\ PipelineNext
         /\ EditReset
         /\ UNCHANGED <<manifest, remainingRepos, included, excluded>>
    ELSE /\ manifest' =
              [manifest EXCEPT
                  !.repositories = sortArrayOfObjects(@ \o edited)]
         /\ remainingRepos' =
              SelectSeq(remainingRepos, LAMBDA r : r.name \notin NamesOf(edited))
         /\ included' = NamesOf(edited)
         /\ UNCHANGED excluded
         /\ repos' = edited
         /\ parseErr' = NoParseErr
         /\ wait' = "write"
         /\ UNCHANGED <<pc, err>>

\* ExcludedOnEdited that saves the manifest for an empty selection too.
ExcludedOnEdited_SaveEmpty(edited) ==
    /\ manifest' =
         [manifest EXCEPT
             !.excludedRepositories =
                 SortStrings(@ \o [i \in 1..Len(edited) |->
                                       edited[i].name])]
    /\ repos' = edited
    /\ parseErr' = NoParseErr
    /\ wait' = "write"
    /\ excluded' = NamesOf(edited)
    /\ UNCHANGED <<pc, err, remainingRepos, included>>
    /\ IF Len(edited) = 0 THEN UNCHANGED <<text, editLine>> ELSE TRUE

\* ExcludedOnEdited that excludes every remaining repo once one is
\* selected.
ExcludedOnEdited_AllRemaining(edited) ==
    IF Len(edited) = 0
    THEN /\ PipelineNext
         /\ EditReset
         /\ UNCHANGED <<manifest, remainingRepos, included, excluded>>
    ELSE /\ manifest' =
              [manifest EXCEPT
                  !.excludedRepositories =
                      SortStrings(@ \o [i \in 1..Len(remainingRepos) |->
                                            remainingRepos[i].name])]
         /\ repos' = edited
         /\ parseErr' = NoParseErr
         /\ wait' = "write"
         /\ excluded' = NamesOf(edited)
         /\ UNCHANGED <<pc, err, remainingRepos, included>>

\* ExcludedOnEdited that also drops the excluded names from repositories.
ExcludedOnEdited_DropTracked(edited) ==
    IF Len(edited) = 0
    THEN /\ PipelineNext
         /\ EditReset
         /\ UNCHANGED <<manifest, remainingRepos, included, excluded>>
    ELSE /\ manifest' =
              [manifest EXCEPT
                  !.excludedRepositories =
                      SortStrings(@ \o [i \in 1..Len(edited) |->
                                            edited[i].name]),
                  !.repositories =
                      SelectSeq(@, LAMBDA r : r.name \notin NamesOf(edited))]
         /\ repos' = edited
         /\ parseErr' = NoParseErr
         /\ wait' = "write"
         /\ excluded' = NamesOf(edited)
         /\ UNCHANGED <<pc, err, remainingRepos, included>>

\* onEdited of addNewExcludedRepos, for a list of parsed repos.
ExcludedOnEdited(edited) ==
    IF Len(edited) = 0
    THEN /\ PipelineNext
         /\ EditReset
         /\ UNCHANGED <<manifest, remainingRepos, included, excluded>>
    ELSE /\ manifest' =
              [manifest EXCEPT
                  !.excludedRepositories =
                      SortStrings(@ \o [i \in 1..Len(edited) |->
                                            edited[i].name])]
         /\ repos' = edited
         /\ parseErr' = NoParseErr
         /\ wait' = "write"
         /\ excluded' = NamesOf(edited)
         /\ UNCHANGED <<pc, err, remainingRepos, included>>

\* onEditAttempt with an editErr: the error goes to onEdited and ends the
\* pipeline.
EditorError ==
    /\ pc \in EditStages /\ wait = "editor"
    /\ PipelineFail("EditError")
    /\ EditReset
    /\ UNCHANGED <<file, manifest, fetched, ctxVars, answer, included, excluded,
                   sourceFailed, interacted, writes>>
    /\ log' = Append(log, "cb")

\* EditorAccept that parses the text and returns without calling cb.
EditorAccept_NoCallback ==
    /\ pc \in EditStages /\ wait = "editor"
    /\ \E editedText \in UserTexts(FrontMatterOf(pc, manifest), remainingRepos) :
        LET parsed == parseReposForm(editedText, ParseLabelsOf(pc)) IN
        /\ parsed.ok
        /\ text' = editedText /\ editLine' = 0
        /\ repos' = parsed.repos
        /\ parseErr' = NoParseErr
    /\ wait' = "accepted"
    /\ UNCHANGED <<pc, err, manifest, remainingRepos, included, excluded>>
    /\ UNCHANGED <<file, fetched, candidateRepos, goneRepos, goneExcRepos,
                   newRepos, addNewRepos, addNewExcludedRepos, answer,
                   sourceFailed, interacted, writes>>
    /\ UNCHANGED log

\* onEditAttempt: the edited text parses; the repos go to onEdited.
EditorAccept ==
    /\ pc \in EditStages /\ wait = "editor"
    /\ \E editedText \in UserTexts(FrontMatterOf(pc, manifest), remainingRepos) :
        LET parsed == parseReposForm(editedText, ParseLabelsOf(pc)) IN
        /\ parsed.ok
        /\ IF Len(parsed.repos) = 0
           THEN TRUE
           ELSE text' = editedText /\ editLine' = 0
        /\ IF pc = "addNewIncludedRepos"
           THEN IncludedOnEdited(parsed.repos)
           ELSE ExcludedOnEdited(parsed.repos)
    /\ UNCHANGED <<file, fetched, candidateRepos, goneRepos, goneExcRepos,
                   newRepos, addNewRepos, addNewExcludedRepos, answer,
                   sourceFailed, interacted, writes>>
    /\ log' = Append(log, "cb")

\* EditorParseError that hands the parse error to onEdited.
EditorParseError_Deliver ==
    /\ pc \in EditStages /\ wait = "editor"
    /\ \E editedText \in UserTexts(FrontMatterOf(pc, manifest), remainingRepos) :
        LET parsed == parseReposForm(editedText, ParseLabelsOf(pc)) IN
        /\ ~parsed.ok
    /\ PipelineFail("ParseError")
    /\ EditReset
    /\ interacted' = TRUE
    /\ UNCHANGED <<file, manifest, fetched, ctxVars, answer,
                   included, excluded,
                   sourceFailed, writes>>
    /\ UNCHANGED log

\* EditorParseError that does not keep the edited text.
EditorParseError_KeepForm ==
    /\ pc \in EditStages /\ wait = "editor"
    /\ \E editedText \in UserTexts(FrontMatterOf(pc, manifest), remainingRepos) :
        LET parsed == parseReposForm(editedText, ParseLabelsOf(pc)) IN
        /\ ~parsed.ok
        /\ text' = text
        /\ editLine' = 0
        /\ parseErr' = parsed
    /\ wait' = "retry"
    /\ interacted' = TRUE
    /\ UNCHANGED <<pc, err, file, manifest, fetched, ctxVars, repos, answer,
                   included, excluded,
                   sourceFailed, writes>>
    /\ UNCHANGED log

\* onEditAttempt: the edited text does not parse; the retry prompt is
\* shown.
EditorParseError ==
    /\ pc \in EditStages /\ wait = "editor"
    /\ \E editedText \in UserTexts(FrontMatterOf(pc, manifest), remainingRepos) :
        LET parsed == parseReposForm(editedText, ParseLabelsOf(pc)) IN
        /\ ~parsed.ok
        /\ text' = editedText
        /\ editLine' = 0
        /\ parseErr' = parsed
    /\ wait' = "retry"
    /\ interacted' = TRUE
    /\ UNCHANGED <<pc, err, file, manifest, fetched, ctxVars, repos, answer,
                   included, excluded,
                   sourceFailed, writes>>
    /\ UNCHANGED log

\* RetryAnswer whose aborted prompt only skips the rest of the stage.
RetryAnswer_SkipStage ==
    /\ pc \in EditStages /\ wait = "retry"
    /\ \E promptErr \in BOOLEAN :
        IF promptErr
        THEN /\ PipelineNext
             /\ EditReset
             /\ log' = Append(log, "cb")
        ELSE /\ editLine' = IF parseErr.line # 0 THEN parseErr.line
                            ELSE editLine
             /\ wait' = "editor"
             /\ UNCHANGED <<pc, err, text, parseErr, repos, log>>
    /\ UNCHANGED <<file, manifest, fetched, ctxVars, answer, included, excluded,
                   sourceFailed, interacted, writes>>

\* RetryAnswer that reopens the editor without moving to the error line.
RetryAnswer_KeepLine ==
    /\ pc \in EditStages /\ wait = "retry"
    /\ \E promptErr \in BOOLEAN :
        IF promptErr
        THEN /\ PipelineFail("true")
             /\ EditReset
             /\ log' = Append(log, "cb")
        ELSE /\ wait' = "editor"
             /\ UNCHANGED <<pc, err, text, editLine, parseErr, repos, log>>
    /\ UNCHANGED <<file, manifest, fetched, ctxVars, answer, included, excluded,
                   sourceFailed, interacted, writes>>

\* RetryAnswer that, after cb(true), goes on to start the next editAttempt.
RetryAnswer_AbortAndRetry ==
    /\ pc \in EditStages /\ wait = "retry"
    /\ \E promptErr \in BOOLEAN :
        IF promptErr
        THEN /\ pc' = "done"
             /\ err' = "true"
             /\ wait' = "editor"
             /\ log' = Append(log, "cb")
             /\ UNCHANGED <<text, editLine, parseErr, repos>>
        ELSE /\ editLine' = IF parseErr.line # 0 THEN parseErr.line
                            ELSE editLine
             /\ wait' = "editor"
             /\ UNCHANGED <<pc, err, text, parseErr, repos, log>>
    /\ UNCHANGED <<file, manifest, fetched, ctxVars, answer, included, excluded,
                   sourceFailed, interacted, writes>>

\* onResponse: <Enter> starts the next editAttempt on the line of the
\* error; an aborted prompt ends editReposInEditor with cb(true).
RetryAnswer ==
    /\ pc \in EditStages /\ wait = "retry"
    /\ \E promptErr \in BOOLEAN :
        IF promptErr
        THEN /\ PipelineFail("true")
             /\ EditReset
             /\ log' = Append(log, "cb")
        ELSE /\ editLine' = IF parseErr.line # 0 THEN parseErr.line
                            ELSE editLine
             /\ wait' = "editor"
             /\ UNCHANGED <<pc, err, text, parseErr, repos, log>>
    /\ UNCHANGED <<file, manifest, fetched, ctxVars, answer, included, excluded,
                   sourceFailed, interacted, writes>>

\* ------------------------------------------------------------------------
\* addNewIncludedRepos, confirmAddNewExcludedRepos, addNewExcludedRepos

\* addNewIncludedRepos: skipped, or the editor is started on the form of
\* the new repos.
AddNewIncludedRepos ==
    /\ pc = "addNewIncludedRepos" /\ wait = "none"
    /\ IF ~addNewRepos
       THEN /\ PipelineNext
            /\ UNCHANGED <<editVars, interacted>>
       ELSE editReposInEditor(IncludeFrontMatter(manifest), remainingRepos)
    /\ UNCHANGED <<file, manifest, fetched, ctxVars, answer, included, excluded,
                   sourceFailed, writes>>
    /\ log' = log \o <<"addNewIncludedRepos">>
                \o (IF wait' = "editor" THEN <<"editReposInEditor">> ELSE <<>>)

\* confirmAddNewExcludedRepos: skipped, or the prompt is shown.
ConfirmAddNewExcludedRepos ==
    /\ pc = "confirmAddNewExcludedRepos" /\ wait = "none"
    /\ IF ~addNewRepos \/ Len(remainingRepos) = 0
       THEN /\ addNewExcludedRepos' = FALSE
            /\ PipelineNext
            /\ UNCHANGED interacted
       ELSE /\ wait' = "promptEnter"
            /\ interacted' = TRUE
            /\ UNCHANGED <<pc, err, addNewExcludedRepos>>
    /\ UNCHANGED <<file, manifest, fetched, candidateRepos, goneRepos,
                   goneExcRepos, newRepos, addNewRepos, remainingRepos,
                   editVars, answer, included, excluded,
                   sourceFailed, writes>>
    /\ UNCHANGED log

\* confirmAddNewExcludedRepos, onA: <Enter>, or the prompt was aborted.
ConfirmAddNewExcludedReposAnswer ==
    /\ pc = "confirmAddNewExcludedRepos" /\ wait = "promptEnter"
    /\ \E promptErr \in BOOLEAN : addNewExcludedRepos' = ~promptErr
    /\ PipelineNext
    /\ UNCHANGED <<file, manifest, fetched, candidateRepos, goneRepos,
                   goneExcRepos, newRepos, addNewRepos, remainingRepos,
                   editVars, answer, included, excluded,
                   sourceFailed, interacted, writes>>
    /\ UNCHANGED log

\* addNewExcludedRepos: skipped, or the editor is started on the form of
\* the remaining repos.
AddNewExcludedRepos ==
    /\ pc = "addNewExcludedRepos" /\ wait = "none"
    /\ IF ~addNewExcludedRepos
       THEN /\ PipelineNext
            /\ UNCHANGED <<editVars, interacted>>
       ELSE editReposInEditor(ExcludeFrontMatter, remainingRepos)
    /\ UNCHANGED <<file, manifest, fetched, ctxVars, answer, included, excluded,
                   sourceFailed, writes>>
    /\ log' = log \o <<"addNewExcludedRepos">>
                \o (IF wait' = "editor" THEN <<"editReposInEditor">> ELSE <<>>)

\* ------------------------------------------------------------------------
\* The run

Next ==
    \/ ReadManifestOk
    \/ ReadManifestFail
    \/ FetchCandidateRepos
    \/ FetchThen
    \/ FetchCatch
    \/ CacheIt
    \/ LoadCache
    \/ CategorizeRepos
    \/ RemoveGoneRepos
    \/ RemoveGoneReposAnswer
    \/ SaveOk
    \/ SaveFail
    \/ ConfirmAddNewRepos
    \/ ConfirmAddNewReposAnswer
    \/ AddNewIncludedRepos
    \/ EditorError
    \/ EditorAccept
    \/ EditorParseError
    \/ RetryAnswer
    \/ ConfirmAddNewExcludedRepos
    \/ ConfirmAddNewExcludedReposAnswer
    \/ AddNewExcludedRepos

Spec == Init /\ [][Next]_vars

\* A step of the run that is not the return of the editor: a function of
\* the pipeline runs, or a read, request, prompt or write completes.
Completes == wait # "editor" /\ Next

\* The run under the scheduling of Node and with a user who goes on: a
\* callback that can be called is called, the editor that was started
\* returns, and the retry prompt is shown finitely often, that is the user
\* does not save unparsable texts forever.
LiveSpec ==
    /\ Init
    /\ [][Next]_vars
    /\ WF_vars(Completes)
    /\ []<>(wait # "editor")
    /\ <>[](wait # "retry")

TypeOK ==
    /\ pc \in Range(Funcs) \cup {"done"}
    /\ wait \in {"none", "read", "source", "promptYesNo", "promptEnter",
                 "editor", "retry", "write"}
    /\ writes \in 0..3

\* ------------------------------------------------------------------------
\* editReposInEditor on its own: the form codec under any edited text

\* The most lines a typed text has.
MaxLines == 2

\* The lines a typed text is made of: blank and comment lines, repo URL
\* lines with and without label tokens, lines that are no repo URL.
CodecLines ==
    { <<>>,
      <<" ">>,
      <<"#", "z">>,
      <<" ", "#", " ", "h", "/", "a">>,
      <<" ", "h", "/", "a", " ">>,
      <<"h", "/", "a", " ", "y">>,
      <<"h", "/", "a", " ", "x", "=", "t", "r", "u", "e">>,
      <<"h", "/", "a", " ", "x", "=", "f", "a", "l", "s", "e">>,
      <<"h", "/", "a", " ", "x", "=", "-", "1", "2">>,
      <<"h", "/", "a", " ", "x", "=", "s">>,
      <<"h", "/", "a", " ", "x", "=">>,
      <<"h", "/", "b", " ", " ", "x", "=", "1", "s", " ", " ", "y">>,
      <<"h", "/", "a", " ", "x", "=", "1", " ", "x", "=", "s">>,
      <<"z", "z">>,
      <<" ", "z", " ">>,
      <<"h">>,
      <<"h", "/">> }

\* The texts of one to MaxLines lines, each line ended by a newline.
CodecTexts ==
    {JoinLines(ls) \o <<"\n">> :
        ls \in UNION {[1..k -> CodecLines] : k \in 1..MaxLines}}

\* opts.repos: repos of any of the names, in name order or in reverse
\* order; the repo of the first name has a label map.
CodecRepoLists ==
    UNION {{[i \in 1..Len(NamesIn(P)) |-> TrackedEntry(NamesIn(P)[i])],
            Reverse([i \in 1..Len(NamesIn(P)) |-> TrackedEntry(NamesIn(P)[i])])} :
           P \in SUBSET Names}

\* The text the user makes of a form by removing the comment marker of
\* every line from line first on.
SelectAll(form, first) ==
    LET lines == SplitLines(form) IN
    JoinLines([i \in 1..Len(lines) |->
                  IF i >= first /\ lines[i] # <<>> /\ lines[i][1] = "#"
                  THEN Tail(lines[i]) ELSE lines[i]])

\* The text the user makes of a text by correcting its line k: the line is
\* commented out, emptied, or replaced by a repo URL.
Corrections(t, k) ==
    LET lines == SplitLines(t) IN
    {JoinLines([lines EXCEPT ![k] = c]) :
        c \in {<<"#">> \o lines[k], <<>>, JOYENT_REPO_BASE_URL \o NameSeq[1]}}

\* The editor is open on the form of opts.repos, for either stage.
CodecInit ==
    /\ pc \in EditStages
    /\ wait = "editor"
    /\ err = "none"
    /\ file = NoManifest
    /\ manifest = NoManifest
    /\ fetched = <<>>
    /\ candidateRepos = <<>>
    /\ goneRepos = <<>>
    /\ goneExcRepos = <<>>
    /\ newRepos = <<>>
    /\ addNewRepos = TRUE
    /\ remainingRepos \in CodecRepoLists
    /\ addNewExcludedRepos = (pc = "addNewExcludedRepos")
    /\ text = createReposForm(FrontMatterOf(pc, manifest), remainingRepos)
    /\ editLine = Len(FrontMatterOf(pc, manifest)) + 1
    /\ parseErr = NoParseErr
    /\ repos = <<>>
    /\ answer = "none"
    /\ included = {}
    /\ excluded = {}
    /\ sourceFailed = FALSE
    /\ interacted = TRUE
    /\ writes = 0
    /\ log = <<"editReposInEditor">>

\* onEditAttempt for an edited text: the repos are handed to cb, or the
\* retry prompt is shown for the parse error.
CodecAttempt(editedText) ==
    LET parsed == parseReposForm(editedText, ParseLabelsOf(pc)) IN
    /\ text' = editedText
    /\ editLine' = 0
    /\ parseErr' = parsed
    /\ repos' = parsed.repos
    /\ wait' = IF parsed.ok THEN "accepted" ELSE "retry"
    /\ log' = IF parsed.ok THEN Append(log, "cb") ELSE log
    /\ UNCHANGED <<pc, err, file, manifest, fetched, ctxVars, answer,
                   included, excluded, sourceFailed, interacted, writes>>

\* The user replaces the form by a text of their own.
CodecEdit ==
    /\ pc \in EditStages /\ wait = "editor" /\ parseErr.ok
    /\ \E editedText \in CodecTexts : CodecAttempt(editedText)

\* The user uncomments every repo line of the form.
CodecSelectAll ==
    /\ pc \in EditStages /\ wait = "editor" /\ parseErr.ok
    /\ CodecAttempt(SelectAll(text, editLine))

\* onResponse without promptErr: the editor is opened again on the text,
\* at the line of the error.
CodecRetry ==
    /\ pc \in EditStages /\ wait = "retry"
    /\ editLine' = IF parseErr.line # 0 THEN parseErr.line ELSE editLine
    /\ wait' = "editor"
    /\ UNCHANGED <<pc, err, file, manifest, fetched, ctxVars, text, parseErr,
                   repos, answer, included, excluded, sourceFailed,
                   interacted, writes>>
    /\ UNCHANGED log

\* The user corrects the line the editor was opened at.
CodecCorrect ==
    /\ pc \in EditStages /\ wait = "editor" /\ ~parseErr.ok
    /\ \E editedText \in Corrections(text, editLine) : CodecAttempt(editedText)

CodecNext ==
    \/ CodecEdit
    \/ CodecSelectAll
    \/ CodecRetry
    \/ CodecCorrect

CodecSpec == CodecInit /\ [][CodecNext]_vars

\* ------------------------------------------------------------------------
\* Properties

\* The number of positions of list that hold e.
Count(list, e) == Cardinality({i \in 1..Len(list) : list[i] = e})

\* The number of entries of a list of repo objects that have the name n.
CountName(list, n) == Cardinality({i \in 1..Len(list) : list[i].name = n})

\* No entry of the list has a smaller name than an entry before it.
IsSortedByName(list) ==
    \A i, j \in 1..Len(list) : i < j => ~StrLess(list[j].name, list[i].name)

\* No string of the list is smaller than a string before it.
IsSortedStrings(list) ==
    \A i, j \in 1..Len(list) : i < j => ~StrLess(list[j], list[i])

\* categorizeRepos has run and removeGoneRepos has not yet changed the
\* manifest.
Categorized == pc = "removeGoneRepos" /\ wait \in {"none", "promptYesNo"}

\* The repo names a form lists on its selectable (commented) lines.
ListedNames(form) ==
    LET lines == SplitLines(form)
        prefix == <<"#", " ">> \o JOYENT_REPO_BASE_URL
    IN  {SliceFrom(lines[i], Len(prefix)) :
            i \in {k \in 1..Len(lines) : SliceTo(lines[k], Len(prefix)) = prefix}}

\* The labels of the text `x=1 y`.
TypedLabels ==
    SetLabel(SetLabel(NoLabels, <<"x">>, NumVal(1)), <<"y">>, BoolVal(TRUE))

\* C1 (as stated): when the candidate source fails or yields no candidate,
\* the run never is in the removal stage with every tracked repo reported
\* as gone.
C1_EmptySourceNeverAllGone ==
    (pc = "removeGoneRepos" /\ file.repositories # <<>>
        /\ goneRepos = file.repositories)
    => (~sourceFailed /\ candidateRepos # <<>>)

\* C1 (amended): a failed candidate request ends the run with the error
\* before the removal stage; an empty candidate set is not a failure: the
\* removal stage is reached with every tracked repo and every excluded name
\* reported as gone, and the manifest is untouched until the prompt is
\* answered.
C1_EmptySourceAllGoneButAsked ==
    /\ sourceFailed => (pc = "done" /\ err = "GitHubApiError"
                        /\ goneRepos = <<>> /\ goneExcRepos = <<>>)
    /\ (Categorized /\ candidateRepos = <<>>) =>
        /\ err = "none"
        /\ goneRepos = manifest.repositories
        /\ [i \in 1..Len(goneExcRepos) |-> goneExcRepos[i].name]
            = manifest.excludedRepositories
        /\ manifest = file
        /\ writes = 0

C1_Witness ==
    /\ pc = "removeGoneRepos" /\ wait = "promptYesNo"
    /\ candidateRepos = <<>>
    /\ manifest.repositories # <<>>

\* C2: when the candidate request fails, the run is over with that error,
\* the manifest in memory is the one that was read, no prompt or editor was
\* started and the file was not written.
C2_SourceFailureAborts ==
    sourceFailed =>
        /\ pc = "done"
        /\ err = "GitHubApiError"
        /\ manifest = file
        /\ ~interacted
        /\ writes = 0
        /\ answer = "none" /\ included = {} /\ excluded = {}

C2_Witness == sourceFailed /\ pc = "done" /\ file.repositories # <<>>

Fetched == pc \notin {"readManifest", "fetchCandidateRepos"} /\ ~sourceFailed
           /\ err # "ReadError"

\* C5: unless includeArchived is set, the candidates are the listing
\* without its archived repos, so an archived repo that is tracked or
\* excluded is reported as gone and no archived repo is new; with
\* includeArchived the candidates are the whole listing.
C5_ArchivedDroppedUnlessIncluded ==
    /\ Fetched =>
        IF manifest.repoCandidateSearch.includeArchived
        THEN candidateRepos = fetched
        ELSE /\ \A c \in Range(fetched) \cup Range(candidateRepos) :
                    Count(candidateRepos, c) =
                        IF c.archived THEN 0 ELSE Count(fetched, c)
    /\ (Categorized /\ ~manifest.repoCandidateSearch.includeArchived) =>
        \A c \in Range(fetched) :
            c.archived =>
                /\ c.name \in NamesOf(manifest.repositories)
                    => c.name \in NamesOf(goneRepos)
                /\ c.name \in Range(manifest.excludedRepositories)
                    => c.name \in NamesOf(goneExcRepos)
                /\ c.name \notin NamesOf(newRepos)

C5_Witness ==
    /\ Categorized
    /\ ~manifest.repoCandidateSearch.includeArchived
    /\ \E c \in Range(fetched) :
        c.archived /\ c.name \in NamesOf(manifest.repositories)

\* C6: after a yes to the removal prompt, repositories is its previous
\* entries without those named in goneRepos, excludedRepositories its
\* previous names without those in goneExcRepos, and when the next stage
\* starts the file has been written once with that content.
C6_RemovalConfirmed ==
    /\ (pc = "removeGoneRepos" /\ wait = "write") =>
        /\ answer = "y"
        /\ Len(goneRepos) + Len(goneExcRepos) > 0
        /\ writes = 0
        /\ \A e \in Range(file.repositories) \cup Range(manifest.repositories) :
            Count(manifest.repositories, e) =
                IF e.name \in NamesOf(goneRepos) THEN 0
                ELSE Count(file.repositories, e)
        /\ \A n \in Range(file.excludedRepositories)
                    \cup Range(manifest.excludedRepositories) :
            Count(manifest.excludedRepositories, n) =
                IF n \in NamesOf(goneExcRepos) THEN 0
                ELSE Count(file.excludedRepositories, n)
    /\ (pc = "confirmAddNewRepos" /\ answer = "y") =>
        /\ file = manifest
        /\ writes = 1
        /\ NamesOf(manifest.repositories) \cap NamesOf(goneRepos) = {}
        /\ Range(manifest.excludedRepositories) \cap NamesOf(goneExcRepos) = {}

C6_Witness ==
    /\ pc = "confirmAddNewRepos" /\ answer = "y"
    /\ goneRepos # <<>>
    /\ manifest.repositories # <<>>

\* C7: after any answer other than yes to the removal prompt, nothing is
\* saved by the removal stage and the next stage starts with the manifest
\* as it was read and the file unwritten.
C7_RemovalDeclined ==
    answer \in {"n", "false"} =>
        /\ pc # "removeGoneRepos"
        /\ pc = "confirmAddNewRepos" => (manifest = file /\ writes = 0)

C7_Witness ==
    /\ pc = "confirmAddNewRepos" /\ answer = "false"
    /\ goneRepos # <<>> /\ goneExcRepos # <<>>

\* C8: when the inclusion edit is accepted with a non-empty selection,
\* repositories is its previous entries plus every accepted entry, with
\* the labels typed in the form, ordered by name; when the next stage
\* starts the file holds that manifest.
C8_InclusionMerged ==
    /\ (pc = "addNewIncludedRepos" /\ wait = "write") =>
        /\ repos # <<>>
        /\ \A e \in Range(manifest.repositories) \cup Range(file.repositories)
                    \cup Range(repos) :
            Count(manifest.repositories, e)
                = Count(file.repositories, e) + Count(repos, e)
        /\ IsSortedByName(manifest.repositories)
        /\ \A i \in 1..Len(repos) :
            IF repos[i].hasLabels THEN repos[i].labels = TypedLabels
            ELSE repos[i].labels = NoLabels
    /\ (pc = "confirmAddNewExcludedRepos" /\ included # {}) =>
        /\ file = manifest
        /\ IsSortedByName(manifest.repositories)
        /\ included \subseteq NamesOf(manifest.repositories)

C8_Witness ==
    /\ pc = "confirmAddNewExcludedRepos"
    /\ Len(manifest.repositories) > 1
    /\ \E i \in 1..Len(manifest.repositories) :
        /\ manifest.repositories[i].name \in included
        /\ manifest.repositories[i].labels = TypedLabels

\* C9: the exclusion prompt and editor run only when the inclusion prompt
\* was passed and repos remain, and the form first shown lists exactly the
\* new repos that were not accepted for inclusion.
C9_ExclusionOffersRemainder ==
    /\ (\/ pc = "confirmAddNewExcludedRepos" /\ wait = "promptEnter"
        \/ pc = "addNewExcludedRepos" /\ wait # "none") =>
        /\ addNewRepos
        /\ remainingRepos # <<>>
    /\ (pc = "addNewExcludedRepos" /\ wait = "editor" /\ parseErr.ok) =>
        /\ ListedNames(text) = NamesOf(newRepos) \ included
        /\ ListedNames(text) \cap included = {}

C9_Witness ==
    /\ pc = "addNewExcludedRepos" /\ wait = "editor" /\ parseErr.ok
    /\ included \cap NamesOf(newRepos) # {}

\* C10: when the exclusion edit is accepted with a non-empty selection,
\* excludedRepositories is its previous names plus every accepted name, in
\* sorted order; when the run ends without error the file holds that
\* manifest.
C10_ExclusionMerged ==
    /\ (pc = "addNewExcludedRepos" /\ wait = "write") =>
        /\ repos # <<>>
        /\ \A n \in Range(manifest.excludedRepositories)
                    \cup Range(file.excludedRepositories) \cup NamesOf(repos) :
            Count(manifest.excludedRepositories, n)
                = Count(file.excludedRepositories, n) + CountName(repos, n)
        /\ IsSortedStrings(manifest.excludedRepositories)
    /\ (pc = "done" /\ err = "none" /\ excluded # {}) =>
        /\ file = manifest
        /\ IsSortedStrings(manifest.excludedRepositories)
        /\ excluded \subseteq Range(manifest.excludedRepositories)

C10_Witness ==
    /\ pc = "done" /\ err = "none" /\ excluded # {}
    /\ Len(manifest.excludedRepositories) > 1

\* ------------------------------------------------------------------------
\* C11 .. C20

\* The step leaves the edit/retry loop of the stage without a write.
LeavesLoopUnwritten(stage) ==
    /\ pc = stage /\ wait \in {"editor", "retry"}
    /\ wait' \notin {"editor", "retry", "write"}

\* C11 (as stated): a decline of the removal prompt, a cancel of the
\* inclusion prompt and an abort inside the edit/retry loop of the inclusion
\* stage each hand the run to the next stage of the pipeline.
C11_AbortSkipsOnlyItsStage ==
    [][/\ (pc = "removeGoneRepos" /\ wait = "promptYesNo" /\ answer' # "y")
            => (pc' = "confirmAddNewRepos" /\ err' = "none")
       /\ (pc = "confirmAddNewRepos" /\ wait = "promptEnter" /\ ~addNewRepos')
            => (pc' = "addNewIncludedRepos" /\ err' = "none")
       /\ LeavesLoopUnwritten("addNewIncludedRepos")
            => (pc' = "confirmAddNewExcludedRepos" /\ err' = "none")]_vars

\* C11 (amended): a decline of the removal prompt and a cancel of the
\* inclusion prompt hand the run to the next stage, which then prompts when
\* its precondition holds; an abort at the retry prompt or an editor error
\* inside an edit/retry loop ends the whole run with that error, with the
\* manifest and the file untouched, and only an empty selection hands the
\* run to the next stage.
C11_AbortInLoopEndsRun ==
    [][/\ (pc = "removeGoneRepos" /\ wait = "promptYesNo" /\ answer' # "y")
            => (pc' = "confirmAddNewRepos" /\ err' = "none")
       /\ (pc = "confirmAddNewRepos" /\ wait = "none" /\ Len(newRepos) > 0)
            => (pc' = pc /\ wait' = "promptEnter")
       /\ (pc = "confirmAddNewRepos" /\ wait = "promptEnter" /\ ~addNewRepos')
            => (pc' = "addNewIncludedRepos" /\ err' = "none")
       /\ (pc \in EditStages /\ wait = "retry" /\ wait' # "editor")
            => (pc' = "done" /\ err' = "true"
                /\ manifest' = manifest /\ file' = file /\ writes' = writes)
       /\ \A stage \in EditStages :
            LeavesLoopUnwritten(stage)
            => \/ /\ wait = "editor" /\ err' = "none"
                  /\ pc' = IF FuncIndex(stage) < Len(Funcs)
                           THEN Funcs[FuncIndex(stage) + 1] ELSE "done"
               \/ /\ pc' = "done" /\ err' \in {"true", "EditError"}
                  /\ manifest' = manifest /\ file' = file]_vars

C11_Witness ==
    /\ pc = "done" /\ err = "true"
    /\ addNewRepos /\ Len(remainingRepos) > 0
    /\ ~addNewExcludedRepos /\ excluded = {}

\* C12: the file changes only in the write that directly follows a yes to
\* the removal prompt or a clean parse with a non-empty selection; a
\* decline, a cancellation, an abort at the retry prompt and a parse error
\* start no write and leave the file and the manifest as they were.
C12_WriteOnlyAfterConfirmedMutation ==
    [][/\ (file' # file \/ writes' # writes)
            => (wait = "write" /\ file' = manifest /\ writes' = writes + 1)
       /\ (wait' = "write" /\ wait # "write")
            => \/ /\ pc = "removeGoneRepos" /\ wait = "promptYesNo"
                  /\ answer' = "y"
               \/ /\ pc \in EditStages /\ wait = "editor"
                  /\ Len(repos') > 0 /\ parseErr' = NoParseErr
       /\ (\/ (wait = "promptYesNo" /\ answer' # "y")
           \/ (wait = "promptEnter" /\ pc = "confirmAddNewRepos"
                 /\ ~addNewRepos')
           \/ (wait = "promptEnter" /\ pc = "confirmAddNewExcludedRepos"
                 /\ ~addNewExcludedRepos')
           \/ wait = "retry"
           \/ wait' = "retry")
            => (wait' # "write" /\ file' = file /\ manifest' = manifest
                /\ writes' = writes)]_vars

C12_Witness ==
    /\ pc = "addNewExcludedRepos" /\ wait = "write"
    /\ writes = 1 /\ file # manifest /\ Len(repos) > 0

\* C13: whenever the session waits on a prompt, on the editor or on the
\* retry prompt, and when a run that read its manifest ends without a write
\* error, the file holds exactly the in-memory manifest.
C13_ManifestPersisted ==
    /\ wait \in {"promptYesNo", "promptEnter", "editor", "retry"}
        => file = manifest
    /\ (pc = "done" /\ err \notin {"WriteError", "ReadError"})
        => file = manifest

C13_Witness ==
    /\ pc = "confirmAddNewExcludedRepos" /\ wait = "promptEnter"
    /\ writes = 1 /\ included # {}
    /\ file = manifest

\* C14: no two entries of repositories, in memory or in the file, have the
\* same name.
C14_RepositoryNamesUnique ==
    /\ \A n \in NamesOf(manifest.repositories) :
            CountName(manifest.repositories, n) = 1
    /\ \A n \in NamesOf(file.repositories) :
            CountName(file.repositories, n) = 1

\* C15: no name is twice in excludedRepositories and none is the name of an
\* entry of repositories, in memory and in the file.
C15_ExcludedUniqueAndDisjoint ==
    \A m \in {manifest, file} :
        /\ \A n \in Range(m.excludedRepositories) :
                Count(m.excludedRepositories, n) = 1
        /\ Range(m.excludedRepositories) \cap NamesOf(m.repositories) = {}

\* C16: at the end of a run that went through without an error and whose
\* removal was confirmed or had nothing to remove, every name of
\* repositories and of excludedRepositories is the name of a repo of the
\* listing of the candidate source.
C16_NamesFromCandidateSource ==
    (pc = "done" /\ err = "none" /\ answer \in {"none", "y"})
    => \A m \in {manifest, file} :
          NamesOf(m.repositories) \cup Range(m.excludedRepositories)
              \subseteq NamesOf(fetched)

\* C17: a text that does not parse keeps the run inside the loop, at the
\* retry prompt, and <Enter> there reopens the editor on the same text any
\* number of times; the loop is left only with the repos of a clean parse
\* (saved when not empty) or with a cancellation (editor error, aborted
\* retry prompt) that ends the run with the manifest and the file as they
\* were. A parse error is never what the caller gets.
C17_LoopAcceptsOrCancels ==
    [][\A stage \in EditStages :
        /\ (pc = stage /\ wait = "editor" /\ wait' = "retry")
            => /\ pc' = pc /\ err' = "none" /\ manifest' = manifest
               /\ ~parseErr'.ok /\ parseErr'.line > 0
        /\ (pc = stage /\ wait = "retry" /\ wait' = "editor")
            => /\ pc' = pc /\ err' = "none"
               /\ text' = text /\ parseErr' = parseErr
        /\ (pc = stage /\ wait \in {"editor", "retry"}
                /\ wait' \notin {"editor", "retry"})
            => \/ /\ wait = "editor" /\ err' = "none" /\ pc' = pc
                  /\ wait' = "write" /\ Len(repos') > 0
                  /\ LET parsed == parseReposForm(text', ParseLabelsOf(stage))
                     IN  parsed.ok /\ repos' = parsed.repos
               \/ /\ wait = "editor" /\ err' = "none" /\ wait' = "none"
                  /\ pc' # pc /\ repos' = <<>>
                  /\ manifest' = manifest /\ file' = file
               \/ /\ pc' = "done"
                  /\ err' = IF wait = "editor" THEN "EditError" ELSE "true"
                  /\ manifest' = manifest /\ file' = file]_vars

C17_Witness ==
    /\ pc = "addNewIncludedRepos" /\ wait = "editor"
    /\ ~parseErr.ok /\ editLine = parseErr.line
    /\ ~parseReposForm(text, TRUE).ok

\* The line is not blank, is not comment-marked and does not begin with
\* the base URL.
InvalidLine(l) ==
    LET t == Trim(l) IN
    /\ t # <<>>
    /\ t[1] # "#"
    /\ SliceTo(t, Len(JOYENT_REPO_BASE_URL)) # JOYENT_REPO_BASE_URL

\* C18: decoding fails exactly when the text has an invalid line; the error
\* has the 1-based number of the first invalid line and the text of that
\* line; when it is the only invalid line, the text with that line
\* corrected decodes.
C18_DecodeErrorNamesLine ==
    (pc \in EditStages /\ wait \in {"retry", "accepted"}) =>
        LET lines == SplitLines(text)
            bad == {i \in 1..Len(lines) : InvalidLine(lines[i])}
        IN  /\ parseErr.ok <=> bad = {}
            /\ wait = "retry" <=> bad # {}
            /\ bad # {} =>
                /\ parseErr.line \in bad
                /\ \A j \in bad : parseErr.line <= j
                /\ parseErr.text = Trim(lines[parseErr.line])
                /\ bad = {parseErr.line} =>
                    \A t \in Corrections(text, parseErr.line) :
                        parseReposForm(t, ParseLabelsOf(pc)).ok

C18_Witness ==
    /\ wait = "accepted"
    /\ Len(SplitLines(text)) = 3
    /\ SplitLines(text)[2] = <<"#", " ", "z", " ">>
    /\ Len(repos) = 1

\* The form of opts.repos.
Form == createReposForm(FrontMatterOf(pc, manifest), remainingRepos)

\* The text is the form with every repo line uncommented, and has been
\* decoded.
AllSelected ==
    /\ pc \in EditStages /\ wait \in {"retry", "accepted"}
    /\ text = SelectAll(Form, Len(FrontMatterOf(pc, manifest)) + 1)

TableLines ==
    { <<"h", "/", "a">>,
      <<"h", "/">>,
      <<"h", "/", "a", " ", "y">>,
      <<"h", "/", "a", " ", "x", "=", "t", "r", "u", "e">>,
      <<"h", "/", "a", " ", "x", "=", "f", "a", "l", "s", "e">>,
      <<"h", "/", "a", " ", "x", "=", "-", "1", "2">>,
      <<"h", "/", "a", " ", "x", "=", "s">>,
      <<"h", "/", "a", " ", "x", "=">>,
      <<"h", "/", "b", " ", " ", "x", "=", "1", "s", " ", " ", "y">>,
      <<"h", "/", "a", " ", "x", "=", "1", " ", "x", "=", "s">> }

\* The entry the line stands for: a token without `=` is true, key=true and
\* key=false are the booleans, key=number is the number, any other
\* key=value is the string; a later token of a key replaces an earlier
\* one.
ExpectedEntry(l) ==
    CASE l = <<"h", "/", "a">> ->
          [name |-> <<"a">>, hasLabels |-> FALSE, labels |-> NoLabels]
      [] l = <<"h", "/">> ->
          [name |-> <<>>, hasLabels |-> FALSE, labels |-> NoLabels]
      [] l = <<"h", "/", "a", " ", "y">> ->
          [name |-> <<"a">>, hasLabels |-> TRUE,
           labels |-> SetLabel(NoLabels, <<"y">>, BoolVal(TRUE))]
      [] l = <<"h", "/", "a", " ", "x", "=", "t", "r", "u", "e">> ->
          [name |-> <<"a">>, hasLabels |-> TRUE,
           labels |-> SetLabel(NoLabels, <<"x">>, BoolVal(TRUE))]
      [] l = <<"h", "/", "a", " ", "x", "=", "f", "a", "l", "s", "e">> ->
          [name |-> <<"a">>, hasLabels |-> TRUE,
           labels |-> SetLabel(NoLabels, <<"x">>, BoolVal(FALSE))]
      [] l = <<"h", "/", "a", " ", "x", "=", "-", "1", "2">> ->
          [name |-> <<"a">>, hasLabels |-> TRUE,
           labels |-> SetLabel(NoLabels, <<"x">>, NumVal(0 - 12))]
      [] l = <<"h", "/", "a", " ", "x", "=", "s">> ->
          [name |-> <<"a">>, hasLabels |-> TRUE,
           labels |-> SetLabel(NoLabels, <<"x">>, StrVal(<<"s">>))]
      [] l = <<"h", "/", "a", " ", "x", "=">> ->
          [name |-> <<"a">>, hasLabels |-> TRUE,
           labels |-> SetLabel(NoLabels, <<"x">>, NumVal(0))]
      [] l = <<"h", "/", "b", " ", " ", "x", "=", "1", "s", " ", " ", "y">> ->
          [name |-> <<"b">>, hasLabels |-> TRUE,
           labels |-> SetLabel(SetLabel(NoLabels, <<"x">>, StrVal(<<"1", "s">>)), <<"y">>, BoolVal(TRUE))]
      [] l = <<"h", "/", "a", " ", "x", "=", "1", " ", "x", "=", "s">> ->
          [name |-> <<"a">>, hasLabels |-> TRUE,
           labels |-> SetLabel(NoLabels, <<"x">>, StrVal(<<"s">>))]

\* The trimmed lines of a text that begin with the base URL.
UrlLines(t) ==
    LET lines == SplitLines(t) IN
    SelectSeq([i \in 1..Len(lines) |-> Trim(lines[i])],
              LAMBDA l : SliceTo(l, Len(JOYENT_REPO_BASE_URL))
                            = JOYENT_REPO_BASE_URL)

\* C20: with label parsing on, the entry of every repo line has the labels
\* its tokens stand for.
C20_LabelCoercion ==
    (pc = "addNewIncludedRepos" /\ wait = "accepted") =>
        LET urls == UrlLines(text) IN
        /\ Len(repos) = Len(urls)
        /\ \A k \in 1..Len(urls) :
            urls[k] \in TableLines => repos[k] = ExpectedEntry(urls[k])

C20_Witness ==
    /\ pc = "addNewIncludedRepos" /\ wait = "accepted"
    /\ UrlLines(text) = << <<"h", "/", "a", " ", "x", "=", "f", "a", "l", "s", "e">>,
                           <<"h", "/", "a", " ", "x", "=", "-", "1", "2">> >>
    /\ Len(repos) = 2
    /\ repos[1].labels[<<"x">>] = BoolVal(FALSE)
    /\ repos[2].labels[<<"x">>] = NumVal(0 - 12)

\* ------------------------------------------------------------------------
\* C21 .. C30

KnowsEveryCandidate(m) ==
    NamesOf(m.repositories) \cup Range(m.excludedRepositories)
        = NamesOf(candidateRepos)

\* C22: in a run whose manifest file knows every candidate, no prompt and
\* no editor is started, no write is started or done, the run ends without
\* an error, and the manifest in memory and in the file stays the one that
\* was read.
C22_NothingToDoRunIsSilent ==
    (Fetched /\ writes = 0 /\ KnowsEveryCandidate(file)) =>
        /\ ~interacted
        /\ wait = "none"
        /\ err = "none"
        /\ manifest = file
        /\ goneRepos = <<>> /\ goneExcRepos = <<>> /\ newRepos = <<>>
        /\ ~addNewRepos /\ ~addNewExcludedRepos

C22_Witness ==
    /\ pc = "done" /\ err = "none"
    /\ KnowsEveryCandidate(file)
    /\ Len(file.repositories) > 0 /\ Len(file.excludedRepositories) > 0
    /\ ~interacted /\ writes = 0

\* C23: at the end of a run, a new repo whose name was accepted in neither
\* form is in neither list of the manifest, in memory and in the file, and
\* categorizeRepos on the file and the same candidates has it as new again.
C23_LeftOverDeferred ==
    pc = "done" =>
        \A i \in 1..Len(newRepos) :
            newRepos[i].name \notin included \cup excluded =>
                /\ \A m \in {manifest, file} :
                        newRepos[i].name \notin
                            NamesOf(m.repositories)
                                \cup Range(m.excludedRepositories)
                /\ newRepos[i] \in Range(NewRepos(file, candidateRepos))

C23_Witness ==
    /\ pc = "done" /\ err = "none"
    /\ addNewExcludedRepos /\ excluded # {} /\ writes = 1
    /\ \E i \in 1..Len(newRepos) :
            newRepos[i].name \notin included \cup excluded

\* C24: while the editor is open, its line is the first line after the
\* front matter when no text has been submitted yet, and the 1-based
\* number of the failing line of the last submitted text after a parse
\* failure.
C24_CursorLine ==
    (pc \in EditStages /\ wait = "editor") =>
        IF parseErr.ok
        THEN /\ editLine = Len(FrontMatterOf(pc, manifest)) + 1
             /\ SplitLines(text)[editLine]
                    = Commented(remainingRepos[1].name)
        ELSE /\ editLine = parseErr.line
             /\ editLine \in 1..Len(SplitLines(text))
             /\ InvalidLine(SplitLines(text)[editLine])
             /\ \A j \in 1..(editLine - 1) : ~InvalidLine(SplitLines(text)[j])

C24_Witness ==
    /\ pc = "addNewIncludedRepos" /\ wait = "editor"
    /\ ~parseErr.ok
    /\ editLine = Len(IncludeFrontMatter(manifest)) + 2

\* The tokens of a trimmed repo URL line: the name and what follows it.
TokensOf(urlLine) == SplitWs(SliceFrom(urlLine, Len(JOYENT_REPO_BASE_URL)))

\* C25: the entries an add stage is about to save are those of the repo
\* URL lines of the accepted text, each named by the first token; in the
\* exclusion stage no entry has labels, whatever follows the name, and the
\* names alone join excludedRepositories; in the inclusion stage an entry
\* has labels exactly when tokens follow the name.
C25_LabelsOnlyWhenParsedAndGiven ==
    (pc \in EditStages /\ wait = "write") =>
        LET urls == UrlLines(text) IN
        /\ Len(repos) = Len(urls)
        /\ \A k \in 1..Len(urls) :
            /\ repos[k].name = TokensOf(urls[k])[1]
            /\ pc = "addNewExcludedRepos"
                => (~repos[k].hasLabels /\ repos[k].labels = NoLabels)
            /\ pc = "addNewIncludedRepos"
                => /\ repos[k].hasLabels <=> Len(TokensOf(urls[k])) > 1
                   /\ ~repos[k].hasLabels => repos[k].labels = NoLabels
        /\ pc = "addNewExcludedRepos"
            => /\ Range(manifest.excludedRepositories)
                    = Range(file.excludedRepositories) \cup NamesOf(repos)
               /\ Len(manifest.excludedRepositories)
                    = Len(file.excludedRepositories) + Len(repos)

C25_Witness ==
    /\ pc = "addNewExcludedRepos" /\ wait = "write"
    /\ \E k \in 1..Len(UrlLines(text)) : Len(TokensOf(UrlLines(text)[k])) > 1

\* The number of writes a run has done when the removal was answered with
\* answer and the names of inc were included.
WritesAfter(a, inc) ==
    (IF a = "y" THEN 1 ELSE 0) + (IF inc # {} THEN 1 ELSE 0)

\* C26: the form a stage opens the editor on decodes, as it is, to no
\* entry; after an inclusion that accepted no entry the manifest is the
\* file, no write was added, the pool still is newRepos and the exclusion
\* form lists all of it; after an exclusion that accepted no entry the
\* manifest is the file and no write was added.
C26_UneditedFormSelectsNothing ==
    /\ (pc \in EditStages /\ wait = "editor" /\ parseErr.ok) =>
            /\ text = Form
            /\ parseReposForm(text, ParseLabelsOf(pc)).ok
            /\ parseReposForm(text, ParseLabelsOf(pc)).repos = <<>>
    /\ (pc \in {"confirmAddNewExcludedRepos", "addNewExcludedRepos"}
            /\ addNewRepos /\ included = {}) =>
            /\ remainingRepos = newRepos
            /\ wait # "write" => manifest = file
            /\ writes = WritesAfter(answer, {})
            /\ (wait = "editor" /\ parseErr.ok)
                    => ListedNames(text) = NamesOf(newRepos)
    /\ (pc = "done" /\ err = "none" /\ addNewExcludedRepos /\ excluded = {}) =>
            /\ manifest = file
            /\ writes = WritesAfter(answer, included)

C26_Witness ==
    /\ pc = "addNewExcludedRepos" /\ wait = "editor" /\ parseErr.ok
    /\ included = {} /\ Len(newRepos) = 2
    /\ ListedNames(text) = NamesOf(newRepos)

\* The position in the log of the last invocation of editReposInEditor,
\* or 0.
LastEdit ==
    LET at == {i \in 1..Len(log) : log[i] = "editReposInEditor"} IN
    IF at = {} THEN 0 ELSE CHOOSE i \in at : \A j \in at : j <= i

\* The positions in the log of the callbacks of the last invocation.
CallbacksOfLastEdit == {i \in (LastEdit + 1)..Len(log) : log[i] = "cb"}

\* C27: every callback in the log is the only one of its invocation of
\* editReposInEditor, and while the editor or the retry prompt of an
\* invocation is open its callback has not been called.
C27_CallbackAtMostOnce ==
    /\ Cardinality(CallbacksOfLastEdit) <= 1
    /\ \A i \in 1..Len(log) :
        log[i] = "cb" =>
            \E j \in 1..(i - 1) :
                /\ log[j] = "editReposInEditor"
                /\ \A k \in (j + 1)..(i - 1) : log[k] # "cb"
    /\ wait \in {"editor", "retry"}
        => (LastEdit > 0 /\ CallbacksOfLastEdit = {})

C27_Witness ==
    /\ pc = "addNewExcludedRepos" /\ wait = "retry"
    /\ Count(log, "cb") = 1 /\ Count(log, "editReposInEditor") = 2

\* C28: after a parse failure, at the retry prompt and in the editor that
\* follows it, the text is the text that failed to parse: its decoding is
\* the error that was reported, and it is not the generated form.
C28_RetrySeededWithLastText ==
    (pc \in EditStages /\ wait \in {"retry", "editor"} /\ ~parseErr.ok) =>
        /\ parseReposForm(text, ParseLabelsOf(pc)) = parseErr
        /\ text # Form

C28_Witness ==
    /\ pc = "addNewExcludedRepos" /\ wait = "editor" /\ ~parseErr.ok
    /\ Len(UrlLines(text)) > 0

\* The fields of a manifest that are not the two lists.
OtherFields(m) ==
    <<m.description, m.repoCandidateSearch, m.blessedLabels, m.defaults>>

\* C29: the manifest differs from the file only in what the function that
\* is about to write has changed: removeGoneRepos has taken entries out of
\* the two lists and left the others as they were, addNewIncludedRepos has
\* left excludedRepositories alone and kept every tracked entry with its
\* labels, addNewExcludedRepos has left repositories alone; the other
\* fields always are those of the file.
C29_StageChangesOnlyItsList ==
    (pc # "readManifest" /\ err # "ReadError") =>
        /\ OtherFields(manifest) = OtherFields(file)
        /\ (wait = "write" /\ pc = "removeGoneRepos") =>
            /\ \A e \in Range(manifest.repositories) :
                    Count(manifest.repositories, e)
                        = Count(file.repositories, e)
            /\ Range(manifest.excludedRepositories)
                    \subseteq Range(file.excludedRepositories)
        /\ (wait = "write" /\ pc = "addNewIncludedRepos") =>
            /\ manifest.excludedRepositories = file.excludedRepositories
            /\ \A e \in Range(file.repositories) :
                    Count(manifest.repositories, e)
                        >= Count(file.repositories, e)
            /\ Len(manifest.repositories)
                    = Len(file.repositories) + Len(repos)
        /\ (wait = "write" /\ pc = "addNewExcludedRepos") =>
            manifest.repositories = file.repositories
        /\ wait # "write" =>
            \/ manifest = file
            \/ err = "WriteError"

C29_Witness ==
    /\ pc = "addNewIncludedRepos" /\ wait = "write"
    /\ Len(file.repositories) = 1 /\ file.repositories[1].hasLabels
    /\ Len(manifest.repositories) = 2

\* The three functions of the pipeline that change the manifest, in the
\* order of the pipeline.
StageFuncs == <<"removeGoneRepos", "addNewIncludedRepos", "addNewExcludedRepos">>

\* The log without the events of the editor.
StageLog ==
    SelectSeq(log, LAMBDA e :
        e \in {"categorizeRepos", "saveManifest", "writeError"}
                \cup Range(StageFuncs))

\* The position of event e in the stage log, 0 when it is not there.
StageAt(e) ==
    IF e \in Range(StageLog)
    THEN CHOOSE i \in 1..Len(StageLog) : StageLog[i] = e
    ELSE 0

\* C30: categorizeRepos runs once and before every stage; the stages are
\* entered at most once each and in the order removal, inclusion,
\* exclusion; every write follows the entry of its stage directly, so there
\* are at most three and in that order; a failed write is the last event of
\* the run.
C30_OnceAndInOrder ==
    LET stageLog == StageLog
        at == [k \in 1..3 |->
                  IF \E i \in 1..Len(stageLog) : stageLog[i] = StageFuncs[k]
                  THEN CHOOSE i \in 1..Len(stageLog) :
                            stageLog[i] = StageFuncs[k]
                  ELSE 0]
    IN  /\ Count(stageLog, "categorizeRepos") <= 1
        /\ stageLog # <<>> => stageLog[1] = "categorizeRepos"
        /\ (pc \in Range(StageFuncs) /\ wait # "none")
                => Count(stageLog, "categorizeRepos") = 1
        /\ \A k \in 1..3 :
            /\ Count(stageLog, StageFuncs[k]) <= 1
            /\ (k > 1 /\ at[k] > 0) =>
                /\ at[k - 1] > 0
                /\ at[k - 1] < at[k]
        /\ \A i \in 1..Len(stageLog) :
            stageLog[i] \in {"saveManifest", "writeError"} =>
                /\ i > 1
                /\ stageLog[i - 1] \in Range(StageFuncs)
        /\ Count(stageLog, "saveManifest") = writes
        /\ writes <= 3
        /\ Count(stageLog, "writeError")
                = (IF err = "WriteError" THEN 1 ELSE 0)
        /\ err = "WriteError" =>
            /\ pc = "done"
            /\ stageLog[Len(stageLog)] = "writeError"

C30_Witness ==
    /\ writes = 1 /\ err = "WriteError"
    /\ StageAt("addNewIncludedRepos") > 0
    /\ StageAt("addNewExcludedRepos") = 0

\* ------------------------------------------------------------------------
\* C31

\* The final callback of the pipeline has been reached with nothing
\* outstanding, and every invocation of editReposInEditor has called its
\* callback: it ended with an accepted text, an abort or an editor error.
Terminated ==
    /\ pc = "done" /\ wait = "none"
    /\ Count(log, "editReposInEditor") = Count(log, "cb")

\* C31: under LiveSpec (every call completes, the user does not save
\* unparsable texts forever) every run reaches the final callback of the
\* pipeline, and by then every edit loop it started has ended with its
\* callback.
C31_Termination == <>Terminated

C31_Witness ==
    /\ pc = "done" /\ wait = "none" /\ err = "none"
    /\ Count(log, "editReposInEditor") = 2
    /\ Count(log, "cb") = 2
    /\ writes = 2

====
